---------------------------- MODULE Spec2Model ----------------------------
(***************************************************************************)
(* A model of the mass-profile inference engine of bmpmod/massmod:         *)
(*   fit_temperature.py : intmodel, Tmodel_func, lnlike, lnprior, lnprob,  *)
(*                        fit_ml, fit_mcmc                                 *)
(*   posterior_mcmc.py  : calc_rdelta_p, calc_posterior_mcmc,              *)
(*                        samples_results                                  *)
(*   example.py         : the pipeline that chains the stages              *)
(*                                                                         *)
(* Numbers.  The program computes in floating point.  The model computes   *)
(* in exact fixed-point integers:                                          *)
(*   - a radius is a whole number of ticks, RadScale ticks to the kpc;     *)
(*     Python's int(r) drops the ticks above the last whole kpc and        *)
(*     "r += 1" adds RadScale ticks;                                       *)
(*   - the concentration c is given in units of 1/RadScale, the scale      *)
(*     radius rs in whole kpc, so that the seed radius c*rs is a whole     *)
(*     number of ticks and need not be a whole number of kpc;              *)
(*   - a log-probability is a record [kind, val], kind "num", "neginf"     *)
(*     or "none" (Python's None).                                          *)
(* The modules mass_models, density_models, gen and defaultparams are not  *)
(* part of the sources at hand; the operators that stand for them are      *)
(* marked as such and are written from the specification's description.    *)
(***************************************************************************)
EXTENDS Integers, Sequences, FiniteSets, TLC

VARIABLES
    clustermeta,   \* dict of cluster info: refindex, incl_mstar, incl_mgas, z
    tspec_data,    \* observed temperature profile: radius, tspec, tspec_err
    nemodel,       \* fitted gas density model: type, parvals
    theta,         \* the arguments (c, rs[, normsersic]) of the call in progress
    rr,            \* Tmodel_func: loop index over the profile
    tfit_arr,      \* Tmodel_func: the model temperatures appended so far
    quad_calls,    \* Tmodel_func: the <<rr, lower, upper>> of each quad() call made
    t_pc,          \* Tmodel_func: "idle" | "loop" | "returned"
    p_fn,          \* lnprior/lnprob: the function called, "none" before the call
    lp,            \* lnprior/lnprob: the value lnprior returned
    lnprob_out,    \* lnprob: what the call returned or raised
    lnlike_calls,  \* lnprob: evaluations of lnlike made by the call
    p_quad_calls,  \* lnprob: quad() calls made by the call (through Tmodel_func)
    row,           \* calc_rdelta_p: the posterior sample of the call
    search,        \* calc_rdelta_p: its locals (rdelta_tot, the masses, ratio)
    iters,         \* calc_rdelta_p: loop iterations made (counted up to SearchIterLimit + 1)
    r_pc,          \* calc_rdelta_p: "idle" | "entry" | "loop" | "returned" | "raised"
    r_out,         \* calc_rdelta_p: the tuple returned, or the exception raised
    samples,       \* calc_posterior_mcmc: the posterior sample set
    Ncores,        \* calc_posterior_mcmc: the worker count n_jobs
    task,          \* calc_posterior_mcmc: per sample "pending" | "running" | "done" | "failed"
    collected,     \* calc_posterior_mcmc: [idx, val] of the finished tasks, in order of completion
    b_pc,          \* calc_posterior_mcmc: "idle" | "running" | "returned" | "raised"
    samples_aux,   \* calc_posterior_mcmc: the array returned
    Nwalkers,      \* fit_mcmc: number of walkers
    Nsteps,        \* fit_mcmc: number of steps each walker takes
    Nburnin,       \* fit_mcmc: number of leading steps to discard
    ml_results,    \* fit_mcmc: the maximum-likelihood point the walkers start around
    pos,           \* fit_mcmc: the current position of each walker
    chain,         \* fit_mcmc: sampler.chain, per walker its position after each step
    m_pc,          \* fit_mcmc: "idle" | "entry" | "sampling" | "returned"
    samples_from,  \* fit_mcmc: per row of samples, the <<walker, step>> it was taken from
    stage,         \* example.py: the stage the pipeline is in
    mcmc_results,  \* samples_results: the dictionary returned
    bounds         \* the parameter bounds the analysis is configured with (fit_ml's arguments)

tvars == <<rr, tfit_arr, quad_calls, t_pc>>
pvars == <<p_fn, lp, lnprob_out, lnlike_calls, p_quad_calls>>
rvars == <<row, search, iters, r_pc, r_out>>
bvars == <<samples, Ncores, task, collected, b_pc, samples_aux>>
poolvars == <<Ncores, task, collected, b_pc>>
mvars == <<Nwalkers, Nsteps, Nburnin, ml_results, pos, chain, m_pc, samples_from, stage>>
svars == <<mcmc_results>>
fvars == <<bounds>>
inputs == <<clustermeta, tspec_data, nemodel>>
vars == <<clustermeta, tspec_data, nemodel, theta, rr, tfit_arr, quad_calls, t_pc,
          p_fn, lp, lnprob_out, lnlike_calls, p_quad_calls,
          row, search, iters, r_pc, r_out,
          samples, Ncores, task, collected, b_pc, samples_aux,
          Nwalkers, Nsteps, Nburnin, ml_results, pos, chain, m_pc, samples_from, stage,
          mcmc_results, bounds>>

---------------------------------------------------------------------------
(* Bounds of the model *)

\* number of radii of the observed temperature profile
NRad == 3

(* Fixed-point scale: ticks per kpc, and the denominator of c *)
RadScale == 2

\* largest c (in units of 1/RadScale) and rs (kpc) of a sample given to calc_rdelta_p
MaxC == 4
MaxRs == 4

\* the iteration count at which a guarded radius search would give up
SearchIterLimit == 2

\* largest number of posterior samples given to calc_posterior_mcmc
MaxSamples == 3

\* largest number of MCMC steps
MaxSteps == 2

---------------------------------------------------------------------------
(* Python helpers *)

Min(a, b) == IF a <= b THEN a ELSE b
Max(a, b) == IF a >= b THEN a ELSE b

\* seq[i] of a Python sequence: 0-based, a negative i counts from the end
PyIndex(seq, i) == IF i >= 0 THEN seq[i + 1] ELSE seq[Len(seq) + i + 1]

\* int(r) of a non-negative radius r given in ticks: truncation to whole kpc
PyInt(r) == (r \div RadScale) * RadScale

\* scipy.integrate.quad(f, a, b) of a function f given on the ticks between a
\* and b: the trapezoid sum over the ticks, signed, 0 on an empty interval
quad(f, a, b) ==
    IF a = b THEN 0
    ELSE LET lo == Min(a, b)
             hi == Max(a, b)
             s[k \in lo..hi] == IF k = lo THEN 0 ELSE s[k - 1] + f[k - 1] + f[k]
         IN  (IF a < b THEN 1 ELSE -1) * (s[hi] \div 2)

---------------------------------------------------------------------------
(* Units and cosmology (defaultparams.uconv, defaultparams.cosmology, gen) *)

\* uconv.Msun: kg per solar mass
Msun == 2

\* cosmo.overdensity: the target mean overdensity (500 in the program's units)
overdensity == 2

\* calc_rhocrit(z) [kg per tick^3]: critical density at redshift z, growing
\* with z
calc_rhocrit(z) == Msun * (1 + z)

\* (4/3) pi r^3, in units in which 4 pi / 3 = 1
Vol(r) == r * r * r

---------------------------------------------------------------------------
(* Mass and density models (mass_models, density_models) *)

\* betamodel / doublebetamodel: electron density at radius r >= 0 (ticks);
\* parvals = <<ne0, rc>> or <<ne0, rc, ne0_2, rc_2>>, beta = 2/3
betamodel(parvals, r) ==
    (parvals[1] * parvals[2] * parvals[2]) \div (parvals[2] * parvals[2] + r * r)

doublebetamodel(parvals, r) ==
    betamodel(<<parvals[1], parvals[2]>>, r) + betamodel(<<parvals[3], parvals[4]>>, r)

nedensity(nm, r) ==
    CASE nm.type = "single_beta" -> betamodel(nm.parvals, r)
      [] nm.type = "double_beta" -> doublebetamodel(nm.parvals, r)

\* nfw_mass_model(r, c, rs, z) [kg]: the NFW mass within r.  By the definition
\* of the concentration its mean density within c*rs is overdensity*rho_crit;
\* it grows with r, c and rs, and more slowly than r^3
nfw_mass_model(r, c, rs, z) ==
    overdensity * calc_rhocrit(z) * (c * rs) * (c * rs) * r

\* sersic_mass_model(r, normsersic, cluster) [Msun]: stellar mass of the central
\* galaxy within r; normsersic is the log of the normalisation
sersic_mass_model(r, normsersic, cluster) ==
    ((2 ^ normsersic) * 4 * r) \div (r + cluster.bcg_re)

\* mgas_intmodel(x, nemodel) [Msun per tick]: the gas mass of the shell at x,
\* 4 pi x^2 rho_gas(x)
mgas_intmodel(x, nm) == (3 * x * x * nedensity(nm, x)) \div 16

\* gas_mass_model(r, nemodel): the gas mass within r, the integral of the shell
\* mass from 0 to r
gas_mass_model(r, nm) == quad([x \in 0..r |-> mgas_intmodel(x, nm)], 0, r)

---------------------------------------------------------------------------
(* fit_temperature.py: intmodel and Tmodel_func *)

\* intmodel(nemodel, rs, c, normsersic, r_arr, clustermeta) at one radius
intmodel(nm, rs, c, normsersic, r, cm) ==
    LET Mnfw  == nfw_mass_model(r, c, rs, cm.z)
        Mstar == IF cm.incl_mstar = 1 THEN sersic_mass_model(r, normsersic, cm) ELSE 0
        Mgas  == IF cm.incl_mgas = 1 THEN gas_mass_model(r, nm) ELSE 0
        Mtot  == Mnfw + Mstar + Mgas
    IN  (nedensity(nm, r) * Mtot) \div (r * r)

\* nemodel['nefit']: the fitted density at the radii of the temperature profile
nefit(nm, ts) == [k \in 1..Len(ts.radius) |-> nedensity(nm, ts.radius[k])]

\* the quad() call of one loop iteration: <<rr, radius_ref, radius_selected>>
TmodelQuadCall(ts, cm, i) == <<i, PyIndex(ts.radius, cm.refindex), ts.radius[i + 1]>>

\* tfit_r of loop iteration rr = i (an iteration that is not skipped)
Tmodel_tfit_r(ts, nm, cm, c, rs, normsersic, i) ==
    LET ne_ref == PyIndex(nefit(nm, ts), cm.refindex)
        tspec_ref == PyIndex(ts.tspec, cm.refindex)
        radius_ref == PyIndex(ts.radius, cm.refindex)
        radius_selected == ts.radius[i + 1]
        ne_selected == nefit(nm, ts)[i + 1]
        lo == Min(radius_ref, radius_selected)
        hi == Max(radius_ref, radius_selected)
        intfunc == [x \in lo..hi |-> intmodel(nm, rs, c, normsersic, x, cm)]
    IN  ((tspec_ref * ne_ref) \div ne_selected)
        - (quad(intfunc, radius_ref, radius_selected) \div ne_selected)

\* the test that skips the reference radius: rr == clustermeta['refindex']
TmodelIsRef(cm, i) == i = cm.refindex

\* one iteration of "for rr in range(0, len(tspec_data))"
Tmodel_iter ==
    /\ t_pc = "loop"
    /\ rr < Len(tspec_data.radius)
    /\ IF TmodelIsRef(clustermeta, rr)
       THEN /\ tfit_arr' = Append(tfit_arr, tspec_data.tspec[rr + 1])
            /\ UNCHANGED quad_calls
       ELSE /\ tfit_arr' = Append(tfit_arr,
                  Tmodel_tfit_r(tspec_data, nemodel, clustermeta,
                                theta[1], theta[2], theta[3], rr))
            /\ quad_calls' = Append(quad_calls, TmodelQuadCall(tspec_data, clustermeta, rr))
    /\ rr' = rr + 1
    /\ UNCHANGED <<theta, t_pc, inputs, svars, fvars, pvars, rvars, bvars, mvars>>

\* "return tfit_arr"
Tmodel_return ==
    /\ t_pc = "loop"
    /\ rr = Len(tspec_data.radius)
    /\ t_pc' = "returned"
    /\ UNCHANGED <<theta, rr, tfit_arr, quad_calls, inputs, svars, fvars, pvars, rvars, bvars, mvars>>

---------------------------------------------------------------------------
(* fit_temperature.py: lnlike, lnprior, lnprob *)

\* log-probabilities and what a call may end with
Num(v) == [kind |-> "num", val |-> v]
NegInf == [kind |-> "neginf", val |-> 0]
None == [kind |-> "none", val |-> 0]
Raised(e) == [kind |-> e, val |-> 0]

\* np.isfinite(lp) of a number or an infinity
isfinite(v) == v.kind = "num"

\* the default bounds of lnprior: params.c_boundmin, ... (units of theta)
c_boundmin == 1
c_boundmax == 5
rs_boundmin == 0
rs_boundmax == 4
normsersic_boundmin == -1
normsersic_boundmax == 3

\* the default bounds as one configuration
DefaultBounds ==
    [c_boundmin |-> c_boundmin, c_boundmax |-> c_boundmax,
     rs_boundmin |-> rs_boundmin, rs_boundmax |-> rs_boundmax,
     normsersic_boundmin |-> normsersic_boundmin,
     normsersic_boundmax |-> normsersic_boundmax]

\* Tmodel_func as a function of its arguments: the array it returns
Tmodel_func(ts, nm, cm, c, rs, normsersic) ==
    [k \in 1..Len(ts.radius) |->
        IF TmodelIsRef(cm, k - 1) THEN ts.tspec[k]
        ELSE Tmodel_tfit_r(ts, nm, cm, c, rs, normsersic, k - 1)]

\* the number of quad() calls one call of Tmodel_func makes
Tmodel_nquad(ts, cm) ==
    Cardinality({k \in 1..Len(ts.radius) : ~TmodelIsRef(cm, k - 1)})

\* np.log(2.*np.pi*(yerr**2.)), rounded to a whole number
lognorm(yerr) == 2 * yerr

\* -0.5*np.sum((((y-model)**2.)/(yerr**2.)) + np.log(2.*np.pi*(yerr**2.)))
gausslike(y, model, yerr) ==
    LET term(k) == (((y[k] - model[k]) * (y[k] - model[k])) \div (yerr[k] * yerr[k]))
                   + lognorm(yerr[k])
        s[k \in 0..Len(y)] == IF k = 0 THEN 0 ELSE s[k - 1] + term(k)
    IN  0 - (s[Len(y)] \div 2)

\* Tmodel_func divides by ne_selected (lines 158-161): a fitted density of zero
\* at a radius that is not skipped makes the evaluation fail
Tmodel_raises(ts, nm, cm) ==
    \E k \in 1..Len(ts.radius) : ~TmodelIsRef(cm, k - 1) /\ nefit(nm, ts)[k] = 0

\* lnlike: unpacks theta as the stellar flag says (a wrong length raises
\* ValueError), then compares the model profile with the observed one; an
\* exception of Tmodel_func passes through
lnlike(th, x, y, yerr, ts, nm, cm) ==
    IF (cm.incl_mstar = 1 /\ Len(th) # 3) \/ (cm.incl_mstar = 0 /\ Len(th) # 2)
    THEN Raised("ValueError")
    ELSE IF Tmodel_raises(ts, nm, cm)
    THEN Raised("ZeroDivisionError")
    ELSE LET normsersic == IF cm.incl_mstar = 1 THEN th[3] ELSE 0
         IN  Num(gausslike(y, Tmodel_func(ts, nm, cm, th[1], th[2], normsersic), yerr))

\* lnprior with <= for the lower bounds
lnprior_halfopen(th, c_min, c_max, rs_min, rs_max, n_min, n_max) ==
    IF Len(th) = 3
    THEN IF /\ c_min <= th[1] /\ th[1] < c_max
            /\ rs_min <= th[2] /\ th[2] < rs_max
            /\ n_min <= th[3] /\ th[3] < n_max
         THEN Num(0) ELSE NegInf
    ELSE IF Len(th) = 2
    THEN IF /\ c_min <= th[1] /\ th[1] < c_max
            /\ rs_min <= th[2] /\ th[2] < rs_max
         THEN Num(0) ELSE NegInf
    ELSE None

\* lnprior that forgets the upper bound of rs
lnprior_norsmax(th, c_min, c_max, rs_min, rs_max, n_min, n_max) ==
    IF Len(th) = 3
    THEN IF /\ c_min < th[1] /\ th[1] < c_max
            /\ rs_min < th[2]
            /\ n_min < th[3] /\ th[3] < n_max
         THEN Num(0) ELSE NegInf
    ELSE IF Len(th) = 2
    THEN IF /\ c_min < th[1] /\ th[1] < c_max
            /\ rs_min < th[2]
         THEN Num(0) ELSE NegInf
    ELSE None

\* lnprior(theta, c_boundmin=..., ...): 0.0 inside the bounds, -inf outside,
\* and None (no return statement is reached) for any other length of theta
lnprior(th, c_min, c_max, rs_min, rs_max, n_min, n_max) ==
    IF Len(th) = 3
    THEN IF /\ c_min < th[1] /\ th[1] < c_max
            /\ rs_min < th[2] /\ th[2] < rs_max
            /\ n_min < th[3] /\ th[3] < n_max
         THEN Num(0) ELSE NegInf
    ELSE IF Len(th) = 2
    THEN IF /\ c_min < th[1] /\ th[1] < c_max
            /\ rs_min < th[2] /\ th[2] < rs_max
         THEN Num(0) ELSE NegInf
    ELSE None

\* lnprior(theta) as lnprob calls it: every bound at its default
lnprior_default(th) ==
    lnprior(th, c_boundmin, c_boundmax, rs_boundmin, rs_boundmax,
            normsersic_boundmin, normsersic_boundmax)

\* what lnprob does once the prior is finite: lp + lnlike(...)
lnprob_likelihood(th, x, y, yerr, ts, nm, cm, prior) ==
    LET ll == lnlike(th, x, y, yerr, ts, nm, cm)
    IN  [out |-> IF ll.kind = "num" THEN Num(prior.val + ll.val) ELSE ll,
         lp |-> prior,
         lnlike_calls |-> 1,
         quad_calls |-> IF ll.kind = "num" THEN Tmodel_nquad(ts, cm) ELSE 0]

\* lnprob that evaluates the likelihood before it looks at the prior
lnprob_eager(th, x, y, yerr, ts, nm, cm) ==
    LET prior == lnprior_default(th)
        r == lnprob_likelihood(th, x, y, yerr, ts, nm, cm, prior)
    IN  IF prior.kind = "none" THEN [r EXCEPT !.out = Raised("TypeError")]
        ELSE IF ~isfinite(prior) THEN [r EXCEPT !.out = NegInf]
        ELSE r

\* lnprob: the value or exception of the call, with the calls it made.
\* np.isfinite(None) raises TypeError
lnprob(th, x, y, yerr, ts, nm, cm) ==
    LET prior == lnprior_default(th)
    IN  IF prior.kind = "none"
        THEN [out |-> Raised("TypeError"), lp |-> prior, lnlike_calls |-> 0, quad_calls |-> 0]
        ELSE IF ~isfinite(prior)
        THEN [out |-> NegInf, lp |-> prior, lnlike_calls |-> 0, quad_calls |-> 0]
        ELSE lnprob_likelihood(th, x, y, yerr, ts, nm, cm, prior)

\* a call lnprior(theta), every bound at its default
LnPrior_call ==
    /\ p_fn = "none"
    /\ p_fn' = "lnprior"
    /\ lp' = lnprior_default(theta)
    /\ UNCHANGED <<lnprob_out, lnlike_calls, p_quad_calls, theta, inputs, svars, fvars, tvars, rvars, bvars, mvars>>

\* a call lnprob(theta, x, y, yerr, ne_data, tspec_data, nemodel, clustermeta)
LnProb_call ==
    /\ p_fn = "none"
    /\ LET r == lnprob(theta, tspec_data.radius, tspec_data.tspec, tspec_data.tspec_err,
                       tspec_data, nemodel, clustermeta)
       IN  /\ p_fn' = "lnprob"
           /\ lp' = r.lp
           /\ lnprob_out' = r.out
           /\ lnlike_calls' = r.lnlike_calls
           /\ p_quad_calls' = r.quad_calls
    /\ UNCHANGED <<theta, inputs, svars, fvars, tvars, rvars, bvars, mvars>>

---------------------------------------------------------------------------
(* posterior_mcmc.py: calc_rdelta_p *)

\* row[2] is read only when cluster['count_mstar'] == 1: a shorter row raises
\* IndexError
rdelta_raises(rw, cl) == cl.count_mstar = 1 /\ Len(rw) < 3

\* the masses with the Sersic term evaluated whatever count_mstar says
rdelta_masses_dev_always(r, c, rs, normsersic, nm, cl, mass_dev_before) ==
    LET mass_nfw == nfw_mass_model(r, c, rs, cl.z)
        mass_dev == sersic_mass_model(r, normsersic, cl) * Msun
        intfunc  == [x \in 0..r |-> mgas_intmodel(r, nm)]
        mass_gas == quad(intfunc, 0, r) * Msun
        mass_tot == mass_nfw + mass_dev + mass_gas
    IN  [mass_nfw |-> mass_nfw, mass_dev |-> mass_dev, mass_gas |-> mass_gas,
         mass_tot |-> mass_tot, ratio |-> <<mass_tot, Vol(r) * calc_rhocrit(cl.z)>>]

\* the masses with a total that leaves the gas out
rdelta_masses_tot_nogas(r, c, rs, normsersic, nm, cl, mass_dev_before) ==
    LET mass_nfw == nfw_mass_model(r, c, rs, cl.z)
        mass_dev == IF cl.count_mstar = 1
                    THEN sersic_mass_model(r, normsersic, cl) * Msun
                    ELSE mass_dev_before
        intfunc  == [x \in 0..r |-> mgas_intmodel(r, nm)]
        mass_gas == quad(intfunc, 0, r) * Msun
        mass_tot == mass_nfw + mass_dev
    IN  [mass_nfw |-> mass_nfw, mass_dev |-> mass_dev, mass_gas |-> mass_gas,
         mass_tot |-> mass_tot, ratio |-> <<mass_tot, Vol(r) * calc_rhocrit(cl.z)>>]

\* the masses [kg] and the overdensity ratio at trial radius r; ratio is kept
\* as the pair <<mass_tot, Vol(r) * rho_crit>> it is the quotient of.  The gas
\* term integrates "lambda x: mgas_intmodel(r, nemodel)", which does not
\* depend on x.  mass_dev keeps its value when count_mstar is not 1
rdelta_masses(r, c, rs, normsersic, nm, cl, mass_dev_before) ==
    LET mass_nfw == nfw_mass_model(r, c, rs, cl.z)
        mass_dev == IF cl.count_mstar = 1
                    THEN sersic_mass_model(r, normsersic, cl) * Msun
                    ELSE mass_dev_before
        intfunc  == [x \in 0..r |-> mgas_intmodel(r, nm)]
        mass_gas == quad(intfunc, 0, r) * Msun
        mass_tot == mass_nfw + mass_dev + mass_gas
    IN  [mass_nfw |-> mass_nfw, mass_dev |-> mass_dev, mass_gas |-> mass_gas,
         mass_tot |-> mass_tot, ratio |-> <<mass_tot, Vol(r) * calc_rhocrit(cl.z)>>]

\* normsersic as lines 42-45 set it
rdelta_normsersic(rw, cl) == IF cl.count_mstar = 1 THEN rw[3] ELSE 0

\* lines 40-70: the locals when the while loop is first reached
rdelta_seed(rw, nm, cl) ==
    LET c == rw[1]
        rs == rw[2]
        rdelta_dm == c * rs
        m == rdelta_masses(rdelta_dm, c, rs, rdelta_normsersic(rw, cl), nm, cl, 0)
    IN  [rdelta_dm |-> rdelta_dm, rdelta_tot |-> PyInt(rdelta_dm), at |-> rdelta_dm,
         mass_nfw |-> m.mass_nfw, mass_dev |-> m.mass_dev, mass_gas |-> m.mass_gas,
         mass_tot |-> m.mass_tot, ratio |-> m.ratio]

\* a loop body that forgets "rdelta_tot += 1"
rdelta_step_stuck(st, rw, nm, cl) ==
    LET r == st.rdelta_tot
        m == rdelta_masses(r, rw[1], rw[2], rdelta_normsersic(rw, cl), nm, cl, st.mass_dev)
    IN  [rdelta_dm |-> st.rdelta_dm, rdelta_tot |-> r, at |-> r,
         mass_nfw |-> m.mass_nfw, mass_dev |-> m.mass_dev, mass_gas |-> m.mass_gas,
         mass_tot |-> m.mass_tot, ratio |-> m.ratio]

\* lines 73-86: one pass through the loop body ("at" is the radius the masses
\* and the ratio were evaluated at)
rdelta_step(st, rw, nm, cl) ==
    LET r == st.rdelta_tot + RadScale
        m == rdelta_masses(r, rw[1], rw[2], rdelta_normsersic(rw, cl), nm, cl, st.mass_dev)
    IN  [rdelta_dm |-> st.rdelta_dm, rdelta_tot |-> r, at |-> r,
         mass_nfw |-> m.mass_nfw, mass_dev |-> m.mass_dev, mass_gas |-> m.mass_gas,
         mass_tot |-> m.mass_tot, ratio |-> m.ratio]

\* the loop test: ratio > cosmo.overdensity
ratio_above(st) == st.ratio[1] > overdensity * st.ratio[2]

\* line 88: the tuple returned [kpc ticks, Msun, Msun, Msun, Msun]
rdelta_result(st) ==
    <<st.rdelta_tot, st.mass_tot \div Msun, st.mass_nfw \div Msun,
      st.mass_dev \div Msun, st.mass_gas \div Msun>>

\* the while loop, run to its end
RECURSIVE rdelta_search(_, _, _, _)
rdelta_search(st, rw, nm, cl) ==
    IF ratio_above(st) THEN rdelta_search(rdelta_step(st, rw, nm, cl), rw, nm, cl)
    ELSE st

\* calc_rdelta_p(row, nemodel, cluster): what the call returns or raises
calc_rdelta_p(rw, nm, cl) ==
    IF rdelta_raises(rw, cl) THEN Raised("IndexError")
    ELSE [kind |-> "row", val |-> rdelta_result(rdelta_search(rdelta_seed(rw, nm, cl), rw, nm, cl))]

NoSearch == [rdelta_dm |-> 0, rdelta_tot |-> 0, at |-> 0, mass_nfw |-> 0, mass_dev |-> 0,
             mass_gas |-> 0, mass_tot |-> 0, ratio |-> <<0, 1>>]

\* lines 40-70 of a call
calc_rdelta_p_entry ==
    /\ r_pc = "entry"
    /\ IF rdelta_raises(row, clustermeta)
       THEN /\ r_pc' = "raised"
            /\ r_out' = Raised("IndexError")
            /\ UNCHANGED search
       ELSE /\ r_pc' = "loop"
            /\ search' = rdelta_seed(row, nemodel, clustermeta)
            /\ UNCHANGED r_out
    /\ UNCHANGED <<row, iters, inputs, svars, fvars, theta, tvars, pvars, bvars, mvars>>

\* one iteration of "while ratio > cosmo.overdensity"
calc_rdelta_p_iter ==
    /\ r_pc = "loop"
    /\ ratio_above(search)
    /\ search' = rdelta_step(search, row, nemodel, clustermeta)
    /\ iters' = Min(iters + 1, SearchIterLimit + 1)
    /\ UNCHANGED <<row, r_pc, r_out, inputs, svars, fvars, theta, tvars, pvars, bvars, mvars>>

\* the loop test fails: "return rdelta_tot, mass_tot/uconv.Msun, ..."
calc_rdelta_p_return ==
    /\ r_pc = "loop"
    /\ ~ratio_above(search)
    /\ r_pc' = "returned"
    /\ r_out' = [kind |-> "row", val |-> rdelta_result(search)]
    /\ UNCHANGED <<row, search, iters, inputs, svars, fvars, theta, tvars, pvars, bvars, mvars>>

---------------------------------------------------------------------------
(* posterior_mcmc.py: calc_posterior_mcmc *)

\* the result list in the order the tasks finished
gather_by_completion(coll, n) == [i \in 1..n |-> coll[i].val]

\* Parallel(...)(...) returns the results in the order of the tasks it was
\* given; np.array(samples_aux) keeps it
gather(coll, n) ==
    [i \in 1..n |-> coll[CHOOSE k \in 1..Len(coll) : coll[k].idx = i].val]

\* the tasks in a given state
TasksIn(st) == {i \in 1..Len(samples) : task[i] = st}

\* the pool hands the next sample, in order, to a free worker
Pool_dispatch ==
    /\ b_pc = "running"
    /\ TasksIn("pending") # {}
    /\ Cardinality(TasksIn("running")) < Ncores
    /\ LET i == CHOOSE j \in TasksIn("pending") : \A k \in TasksIn("pending") : j <= k
       IN  task' = [task EXCEPT ![i] = "running"]
    /\ UNCHANGED <<samples, Ncores, collected, b_pc, samples_aux,
                   inputs, svars, fvars, theta, tvars, pvars, rvars, mvars>>

\* a worker finishes calc_rdelta_p(row, nemodel, cluster) for its sample; an
\* exception of the task is raised again by Parallel.__call__, out of
\* calc_posterior_mcmc
Task_finish ==
    /\ b_pc = "running"
    /\ \E i \in TasksIn("running") :
          LET v == calc_rdelta_p(samples[i], nemodel, clustermeta)
          IN  IF v.kind = "row"
              THEN /\ task' = [task EXCEPT ![i] = "done"]
                   /\ collected' = Append(collected, [idx |-> i, val |-> v.val])
                   /\ UNCHANGED <<b_pc, samples_aux>>
              ELSE /\ task' = [task EXCEPT ![i] = "failed"]
                   /\ b_pc' = "raised"
                   /\ samples_aux' = v
                   /\ UNCHANGED collected
    /\ UNCHANGED <<samples, Ncores, inputs, svars, fvars, theta, tvars, pvars, rvars, mvars>>

\* every task is done: "return np.array(samples_aux)"
Pool_return ==
    /\ b_pc = "running"
    /\ TasksIn("done") = 1..Len(samples)
    /\ b_pc' = "returned"
    /\ samples_aux' = [kind |-> "array", val |-> gather(collected, Len(samples))]
    /\ UNCHANGED <<samples, Ncores, task, collected, inputs, svars, fvars, theta, tvars, pvars, rvars, mvars>>

\* calc_posterior_mcmc with one worker: the rows in order, or the first
\* exception a row raises
calc_posterior_mcmc_seq(smp, nm, cl) ==
    LET bad == {i \in 1..Len(smp) : calc_rdelta_p(smp[i], nm, cl).kind # "row"}
    IN  IF bad # {}
        THEN calc_rdelta_p(smp[CHOOSE i \in bad : \A j \in bad : i <= j], nm, cl)
        ELSE [kind |-> "array",
              val |-> [i \in 1..Len(smp) |-> calc_rdelta_p(smp[i], nm, cl).val]]

---------------------------------------------------------------------------
(* posterior_mcmc.py: samples_results *)

\* percentiles are kept as whole numbers of 1/PctScale
PctScale == 100

\* column j (1-based) of an array of rows
column(arr, j) == [i \in 1..Len(arr) |-> arr[i][j]]

\* np.percentile(col, q) of a non-empty column, times PctScale: the value at
\* position q/100*(n-1) of the sorted column, linearly interpolated between
\* its neighbours
percentile(col, q) ==
    LET srt == SortSeq(col, LAMBDA a, b : a < b)
        h == q * (Len(col) - 1)
        lo == h \div PctScale
        fr == h % PctScale
    IN  IF fr = 0 THEN PctScale * srt[lo + 1]
        ELSE PctScale * srt[lo + 1] + fr * (srt[lo + 2] - srt[lo + 1])

\* a triple with the two errors exchanged
results_triple_swapped(v) == <<v[2], v[2] - v[1], v[3] - v[2]>>

\* lambda v: (v[1], v[2]-v[1], v[1]-v[0]) of v = (p16, p50, p84)
results_triple(v) == <<v[2], v[3] - v[2], v[2] - v[1]>>

\* zip(*np.percentile(arr, [16, 50, 84], axis=0)) mapped through the lambda:
\* one triple per column
results_columns(arr) ==
    [j \in 1..Len(arr[1]) |->
        results_triple(<<percentile(column(arr, j), 16), percentile(column(arr, j), 50),
                         percentile(column(arr, j), 84)>>)]

\* the keys that forget mstars
results_keys_nomstars(cl) ==
    {"c", "rs", "rdelta", "mdelta", "mdm", "mgas"}
    \cup (IF cl.count_mstar = 1 THEN {"normsersic"} ELSE {})

\* lines 156-166: the keys stored in mcmc_results
results_keys(cl) ==
    {"c", "rs", "rdelta", "mdelta", "mdm", "mgas"}
    \cup (IF cl.count_mstar = 1 THEN {"normsersic", "mstars"} ELSE {})

\* the variable whose value is stored under a key: 1-3 are c_mcmc, rs_mcmc,
\* normsersic_mcmc (columns of samples), 4-8 rdelta_mcmc, mdelta_mcmc, mdm_mcmc,
\* mstars_mcmc, mgas_mcmc (columns of samples_aux)
results_slot(k) ==
    CASE k = "c" -> 1 [] k = "rs" -> 2 [] k = "normsersic" -> 3
      [] k = "rdelta" -> 4 [] k = "mdelta" -> 5 [] k = "mdm" -> 6
      [] k = "mstars" -> 7 [] k = "mgas" -> 8

\* samples_results(samples, samples_aux, cluster) for non-empty arrays: the
\* dictionary, or the ValueError of an unpacking whose count does not fit
samples_results(smp, aux, cl) ==
    IF Len(smp[1]) # (IF cl.count_mstar = 1 THEN 3 ELSE 2) \/ Len(aux[1]) # 5
    THEN Raised("ValueError")
    ELSE LET par == results_columns(smp)
             der == results_columns(aux)
         IN  [kind |-> "dict",
              val |-> [k \in results_keys(cl) |->
                         IF results_slot(k) <= 3 THEN par[results_slot(k)]
                         ELSE der[results_slot(k) - 3]]]

\* the call mcmc_results = samples_results(samples, samples_aux, clustermeta)
samples_results_call ==
    /\ stage = "calc_posterior_mcmc"
    /\ samples_aux.kind = "array"
    /\ Len(samples) > 0
    /\ stage' = "samples_results"
    /\ mcmc_results' = samples_results(samples, samples_aux.val, clustermeta)
    /\ UNCHANGED <<Nwalkers, Nsteps, Nburnin, ml_results, pos, chain, m_pc, samples_from,
                   samples, samples_aux, poolvars, inputs, fvars, theta, tvars, pvars, rvars>>

---------------------------------------------------------------------------
(* fit_temperature.py: fit_mcmc *)

\* ndim as lines 405-408 set it
ndim_of(cm) == IF cm.incl_mstar = 1 THEN 3 ELSE 2

\* ml_results + 1e-4*np.random.randn(ndim): the point moved by one draw d of
\* the perturbation, a vector of ndim components of one quantum each
perturbed(ml, d, ndim) == [k \in 1..ndim |-> ml[k] + d[k]]

\* the stretch factors of a proposal, in halves: z = 1/2 and z = 2
StretchFactors == {1, 4}

\* the stretch move of the ensemble sampler: the proposal of a walker lies on
\* the line through its position and that of another walker,
\* other + z*(cur - other)
stretch(cur, other, z2) ==
    [k \in 1..Len(cur) |-> other[k] + ((z2 * (cur[k] - other[k])) \div 2)]

\* the walker the proposal of walker w is built from
partner(w, n) == (w % n) + 1

\* chain[:, Nburnin:, :] with one step too many dropped
chain_slice_offbyone(ch, nburnin) ==
    [w \in DOMAIN ch |->
        IF nburnin + 1 >= Len(ch[w]) THEN <<>> ELSE SubSeq(ch[w], nburnin + 2, Len(ch[w]))]

\* sampler.chain[:, Nburnin:, :] for Nburnin >= 0
chain_slice(ch, nburnin) ==
    [w \in DOMAIN ch |->
        IF nburnin >= Len(ch[w]) THEN <<>> ELSE SubSeq(ch[w], nburnin + 1, Len(ch[w]))]

\* .reshape((-1, ndim)) of an array of nw walkers with k steps each: the rows
\* walker by walker
reshape_rows(sl, nw, k) ==
    [i \in 1..(nw * k) |-> sl[((i - 1) \div k) + 1][((i - 1) % k) + 1]]

\* the <<walker, step>> (0-based step) of each row of the reshaped slice
reshape_from(nw, k, nburnin) ==
    [i \in 1..(nw * k) |-> <<((i - 1) \div k) + 1, nburnin + ((i - 1) % k)>>]

\* the draws of the perturbation of one walker
PertDraws(ndim) == { [k \in 1..ndim |-> 1], [k \in 1..ndim |-> -1] }

\* lines 405-419: ndim, the initial positions and the sampler
fit_mcmc_entry ==
    /\ m_pc = "entry"
    /\ \E d \in [1..Nwalkers -> PertDraws(ndim_of(clustermeta))] :
          pos' = [w \in 1..Nwalkers |->
                    perturbed(ml_results, d[w], ndim_of(clustermeta))]
    /\ chain' = [w \in 1..Nwalkers |-> <<>>]
    /\ m_pc' = "sampling"
    /\ UNCHANGED <<Nwalkers, Nsteps, Nburnin, ml_results, samples_from, stage,
                   inputs, svars, fvars, theta, tvars, pvars, rvars, bvars>>

\* one iteration of "for i, result in enumerate(sampler.sample(pos, iterations=Nsteps))":
\* every walker proposes a move; it is taken only if its lnprob is finite and
\* the sampler's random draw accepts it; the new positions are appended to
\* sampler.chain
fit_mcmc_iter ==
    /\ m_pc = "sampling"
    /\ Len(chain[1]) < Nsteps
    /\ \E z2 \in StretchFactors :
          LET prop(w) == stretch(pos[w], pos[partner(w, Nwalkers)], z2)
              lnp(w) == lnprob(prop(w), tspec_data.radius, tspec_data.tspec,
                               tspec_data.tspec_err, tspec_data, nemodel, clustermeta).out
          IN  \E movable \in { {w \in 1..Nwalkers : isfinite(lnp(w))} } :
              \E acc \in SUBSET movable :
                 LET new == [w \in 1..Nwalkers |-> IF w \in acc THEN prop(w) ELSE pos[w]]
                 IN  /\ pos' = new
                     /\ chain' = [w \in 1..Nwalkers |-> Append(chain[w], new[w])]
    /\ UNCHANGED <<Nwalkers, Nsteps, Nburnin, ml_results, m_pc, samples_from, stage,
                   inputs, svars, fvars, theta, tvars, pvars, rvars, bvars>>

\* lines 432-448: drop the burn-in, flatten, return
fit_mcmc_return ==
    /\ m_pc = "sampling"
    /\ Len(chain[1]) = Nsteps
    /\ LET sl == chain_slice(chain, Nburnin)
           k == Len(sl[1])
       IN  /\ samples' = reshape_rows(sl, Nwalkers, k)
           /\ samples_from' = reshape_from(Nwalkers, k, Nburnin)
    /\ m_pc' = "returned"
    /\ UNCHANGED <<Nwalkers, Nsteps, Nburnin, ml_results, pos, chain, stage,
                   samples_aux, poolvars, inputs, svars, fvars, theta, tvars, pvars, rvars>>

---------------------------------------------------------------------------
(* example.py: the pipeline after fit_mcmc *)

\* lines 105-119: fit_mcmc has returned; its samples go to calc_posterior_mcmc
\* (Ncores=1) as they are
Pipeline_calc_posterior ==
    /\ stage = "fit_mcmc"
    /\ m_pc = "returned"
    /\ stage' = "calc_posterior_mcmc"
    /\ samples_aux' = calc_posterior_mcmc_seq(samples, nemodel, clustermeta)
    /\ UNCHANGED <<Nwalkers, Nsteps, Nburnin, ml_results, pos, chain, m_pc, samples_from,
                   samples, poolvars, inputs, svars, fvars, theta, tvars, pvars, rvars>>

---------------------------------------------------------------------------
(* Inputs *)

\* the radii of the profile, strictly increasing: 1, 2, ... kpc
Radii == [k \in 1..NRad |-> k * RadScale]

TspecProfiles == { [k \in 1..NRad |-> 5], [k \in 1..NRad |-> 3 + k] }

TspecData == { [radius |-> Radii, tspec |-> t, tspec_err |-> [k \in 1..NRad |-> 1]] :
               t \in TspecProfiles }

NeModels == { [type |-> "single_beta", parvals |-> <<64, 2>>],
              [type |-> "double_beta", parvals |-> <<48, 2, 16, 4>>] }

\* every index Python accepts for a profile of NRad radii
RefIndices == (0 - NRad)..(NRad - 1)

ClusterMetas == [refindex : RefIndices, incl_mstar : {0, 1}, incl_mgas : {0, 1},
                 z : {0}, bcg_re : {2}]

\* no Tmodel_func call in progress
T_idle == rr = 0 /\ tfit_arr = <<>> /\ quad_calls = <<>> /\ t_pc = "idle"

\* no lnprior/lnprob call made
P_idle ==
    /\ p_fn = "none" /\ lp = None /\ lnprob_out = None
    /\ lnlike_calls = 0 /\ p_quad_calls = 0

\* no calc_rdelta_p call made
R_idle == row = <<>> /\ search = NoSearch /\ iters = 0 /\ r_pc = "idle" /\ r_out = None

\* no calc_posterior_mcmc call made
B_idle ==
    /\ samples = <<>> /\ Ncores = 1 /\ task = <<>> /\ collected = <<>>
    /\ b_pc = "idle" /\ samples_aux = None

\* no samples_results call made
S_idle == mcmc_results = None

\* the analysis runs with the default bounds
F_idle == bounds = DefaultBounds

\* no fit_mcmc call made, the pipeline not started
M_idle ==
    /\ Nwalkers = 0 /\ Nsteps = 0 /\ Nburnin = 0 /\ ml_results = <<>>
    /\ pos = <<>> /\ chain = <<>> /\ m_pc = "idle" /\ samples_from = <<>>
    /\ stage = "idle"

Init_T ==
    /\ M_idle
    /\ S_idle
    /\ F_idle
    /\ P_idle
    /\ R_idle
    /\ B_idle
    /\ clustermeta \in ClusterMetas
    /\ tspec_data \in TspecData
    /\ nemodel \in NeModels
    /\ theta \in {<<2, 1, 0>>, <<3, 2, 1>>}
    /\ rr = 0
    /\ tfit_arr = <<>>
    /\ quad_calls = <<>>
    /\ t_pc = "loop"

Next_T == Tmodel_iter \/ Tmodel_return

SpecT == Init_T /\ [][Next_T]_vars

\* density models for the likelihood: the fitted ones and a faint one whose
\* fitted density is zero at the outer radii
NeModelsP == NeModels \cup { [type |-> "single_beta", parvals |-> <<4, 2>>] }

\* the bounds an analysis is configured with: the defaults, and a narrower
\* range of c
BoundConfigs ==
    { DefaultBounds,
      [DefaultBounds EXCEPT !.c_boundmin = c_boundmin + 1, !.c_boundmax = c_boundmax - 1] }

\* thetas of 2 and 3 components around the default bounds, and of 1 and 4
ThetaC == (c_boundmin - 1)..(c_boundmax + 1)
ThetaRs == (rs_boundmin - 1)..(rs_boundmax + 1)
ThetaN == (normsersic_boundmin - 1)..(normsersic_boundmax + 1)

ThetaSpace ==
    (ThetaC \X ThetaRs) \cup (ThetaC \X ThetaRs \X ThetaN)
    \cup {<<2>>, <<2, 1, 0, 0>>}

Init_P ==
    /\ M_idle
    /\ S_idle
    /\ bounds \in BoundConfigs
    /\ T_idle
    /\ P_idle
    /\ R_idle
    /\ B_idle
    /\ clustermeta \in [refindex : {0, -1}, incl_mstar : {0, 1}, incl_mgas : {0, 1},
                        z : {0}, bcg_re : {2}]
    /\ tspec_data \in TspecData
    /\ nemodel \in NeModelsP
    /\ theta \in ThetaSpace

Next_P == LnPrior_call \/ LnProb_call

SpecP == Init_P /\ [][Next_P]_vars

\* the cluster dict as posterior_mcmc.py reads it
ClusterMetasR == [refindex : {-1}, incl_mstar : {1}, incl_mgas : {0, 1},
                  count_mstar : {0, 1}, z : {0, 1}, bcg_re : {2}]

\* density models for the radius search: two fitted ones and a gas-free one
NeModelsR == NeModels \cup { [type |-> "single_beta", parvals |-> <<0, 2>>] }

\* samples (c, rs) and (c, rs, normsersic) with c and rs positive
RowsR == ((1..MaxC) \X (1..MaxRs)) \cup ((1..MaxC) \X (1..MaxRs) \X {0, 2})

Init_R ==
    /\ M_idle
    /\ S_idle
    /\ F_idle
    /\ T_idle
    /\ P_idle
    /\ B_idle
    /\ clustermeta \in ClusterMetasR
    /\ tspec_data \in {CHOOSE t \in TspecData : TRUE}
    /\ nemodel \in NeModelsR
    /\ theta = <<>>
    /\ row \in RowsR
    /\ search = NoSearch
    /\ iters = 0
    /\ r_pc = "entry"
    /\ r_out = None

Next_R == calc_rdelta_p_entry \/ calc_rdelta_p_iter \/ calc_rdelta_p_return

SpecR == Init_R /\ [][Next_R]_vars

\* the interpreter keeps executing the call: a step that can be taken is taken
FairSpecR == SpecR /\ WF_vars(Next_R)

\* the rows of the sample sets given to calc_posterior_mcmc
RowsB == {<<1, 1>>, <<3, 1>>, <<2, 2, 1>>, <<1, 3, 2>>}

SampleSets == UNION {[1..n -> RowsB] : n \in 0..MaxSamples}

\* worker counts n_jobs
CoreCounts == {1, 2, 4}

Init_B ==
    /\ M_idle
    /\ S_idle
    /\ F_idle
    /\ T_idle
    /\ P_idle
    /\ R_idle
    /\ clustermeta \in [refindex : {-1}, incl_mstar : {1}, incl_mgas : {1},
                        count_mstar : {0, 1}, z : {0}, bcg_re : {2}]
    /\ tspec_data \in {CHOOSE t \in TspecData : TRUE}
    /\ nemodel \in {[type |-> "single_beta", parvals |-> <<64, 2>>]}
    /\ theta = <<>>
    /\ samples \in SampleSets
    /\ Ncores \in CoreCounts
    /\ task = [i \in 1..Len(samples) |-> "pending"]
    /\ collected = <<>>
    /\ b_pc = "running"
    /\ samples_aux = None

Next_B == Pool_dispatch \/ Task_finish \/ Pool_return

SpecB == Init_B /\ [][Next_B]_vars

\* walker counts
WalkerCounts == {2, 3}

\* results of fit_ml, by dimension: the optimizer keeps every parameter within
\* its closed bounds, so a point inside the bounds and a point with c on its
\* upper bound
MLResults(ndim) ==
    IF ndim = 3 THEN {<<3, 2, 1>>, <<c_boundmax, 2, 1>>} ELSE {<<3, 2>>, <<c_boundmax, 2>>}

Init_M ==
    /\ S_idle
    /\ F_idle
    /\ T_idle
    /\ P_idle
    /\ R_idle
    /\ B_idle
    /\ clustermeta \in { [refindex |-> -1, incl_mstar |-> f, incl_mgas |-> 1,
                          count_mstar |-> f, z |-> 0, bcg_re |-> 2] : f \in {0, 1} }
    /\ tspec_data \in {CHOOSE t \in TspecData : TRUE}
    /\ nemodel \in {[type |-> "single_beta", parvals |-> <<64, 2>>]}
    /\ theta = <<>>
    /\ Nwalkers \in WalkerCounts
    /\ Nsteps \in 1..MaxSteps
    /\ Nburnin \in 0..MaxSteps
    /\ ml_results \in MLResults(ndim_of(clustermeta))
    /\ pos = <<>>
    /\ chain = <<>>
    /\ m_pc = "entry"
    /\ samples_from = <<>>
    /\ stage = "fit_mcmc"

Next_M == fit_mcmc_entry \/ fit_mcmc_iter \/ fit_mcmc_return \/ Pipeline_calc_posterior

SpecM == Init_M /\ [][Next_M]_vars

\* posterior sample sets of one dimension each
RowsS(ndim) ==
    IF ndim = 3 THEN {<<2, 2, 1>>, <<1, 3, 2>>, <<3, 1, 0>>} ELSE {<<1, 1>>, <<3, 1>>, <<2, 3>>}

SampleSetsS == UNION {[1..n -> RowsS(d)] : n \in 1..MaxSamples, d \in {2, 3}}

\* the pipeline after calc_posterior_mcmc has returned its array
Init_S ==
    /\ T_idle
    /\ P_idle
    /\ R_idle
    /\ S_idle
    /\ F_idle
    /\ clustermeta \in { [refindex |-> -1, incl_mstar |-> f, incl_mgas |-> 1,
                          count_mstar |-> f, z |-> 0, bcg_re |-> 2] : f \in {0, 1} }
    /\ tspec_data \in {CHOOSE t \in TspecData : TRUE}
    /\ nemodel \in {[type |-> "single_beta", parvals |-> <<64, 2>>]}
    /\ theta = <<>>
    /\ samples \in SampleSetsS
    /\ calc_posterior_mcmc_seq(samples, nemodel, clustermeta).kind = "array"
    /\ samples_aux = calc_posterior_mcmc_seq(samples, nemodel, clustermeta)
    /\ Ncores = 1 /\ task = <<>> /\ collected = <<>> /\ b_pc = "idle"
    /\ Nwalkers = 0 /\ Nsteps = 0 /\ Nburnin = 0 /\ ml_results = <<>>
    /\ pos = <<>> /\ chain = <<>> /\ m_pc = "idle" /\ samples_from = <<>>
    /\ stage = "calc_posterior_mcmc"

Next_S == samples_results_call

SpecS == Init_S /\ [][Next_S]_vars

---------------------------------------------------------------------------
(* Properties *)

\* the 0-based position a Python index selects in the profile
RefPos(cm) == IF cm.refindex >= 0 THEN cm.refindex ELSE NRad + cm.refindex

\* C1: for every theta and every reference index that selects an observed
\* radius (negative indices included), the array Tmodel_func returns holds at
\* the reference radius exactly the observed temperature tspec[refindex], and
\* no quad() call was made for that radius.
C1_RefExactNoQuad ==
    t_pc = "returned" =>
        /\ tfit_arr[RefPos(clustermeta) + 1] = PyIndex(tspec_data.tspec, clustermeta.refindex)
        /\ \A k \in 1..Len(quad_calls) : quad_calls[k][1] # RefPos(clustermeta)

\* the default bounds, per component of theta
BoundMin == <<c_boundmin, rs_boundmin, normsersic_boundmin>>
BoundMax == <<c_boundmax, rs_boundmax, normsersic_boundmax>>

StrictlyInside(th) == \A k \in 1..Len(th) : BoundMin[k] < th[k] /\ th[k] < BoundMax[k]
SomeOutside(th) == \E k \in 1..Len(th) : th[k] < BoundMin[k] \/ th[k] > BoundMax[k]
InsideAt(th, k) == BoundMin[k] < th[k] /\ th[k] < BoundMax[k]

\* C2: lnprob(theta) returns -inf whenever lnprior(theta) is -inf, and the call
\* then evaluates neither lnlike nor (through Tmodel_func) any quadrature.
C2_PriorShortCircuit ==
    (p_fn = "lnprob" /\ lnprior_default(theta) = NegInf) =>
        (lnprob_out = NegInf /\ lnlike_calls = 0 /\ p_quad_calls = 0)

C2_Witness ==
    /\ p_fn = "lnprob" /\ Len(theta) = 3
    /\ InsideAt(theta, 1) /\ InsideAt(theta, 2) /\ theta[3] > normsersic_boundmax
    /\ lnprob_out = NegInf

\* C3: for a theta of 2 or of 3 components lnprior returns exactly 0 when every
\* component is strictly inside its bounds, exactly -inf when some component is
\* outside its bounds, and never anything else.
C3_PriorZeroOrNegInf ==
    (p_fn = "lnprior" /\ Len(theta) \in {2, 3}) =>
        /\ StrictlyInside(theta) => lp = Num(0)
        /\ SomeOutside(theta) => lp = NegInf
        /\ lp \in {Num(0), NegInf}

C3_Witness ==
    /\ p_fn = "lnprior" /\ Len(theta) = 2
    /\ InsideAt(theta, 1) /\ theta[2] > rs_boundmax
    /\ lp = NegInf

\* some component is on its lower bound, every other strictly inside its bounds
AtMinOthersInside(th) ==
    \E k \in 1..Len(th) :
        th[k] = BoundMin[k] /\ \A j \in (1..Len(th)) \ {k} : InsideAt(th, j)

OnABound(th) == \E k \in 1..Len(th) : th[k] = BoundMin[k] \/ th[k] = BoundMax[k]

\* C4 (as claimed): the bounds are half-open, [min, max): a component on its
\* minimum (the others inside) gets log-prior 0, a component on its maximum -inf.
C4_HalfOpen ==
    (p_fn = "lnprior" /\ Len(theta) \in {2, 3}) =>
        /\ AtMinOthersInside(theta) => lp = Num(0)
        /\ (\E k \in 1..Len(theta) : theta[k] = BoundMax[k]) => lp = NegInf

\* C4 (amended): the bounds are open, (min, max): a theta with a component on
\* its minimum or on its maximum gets log-prior -inf.
C4_OpenInterval ==
    (p_fn = "lnprior" /\ Len(theta) \in {2, 3}) =>
        (OnABound(theta) => lp = NegInf)

C4_Witness ==
    /\ p_fn = "lnprior" /\ Len(theta) = 3
    /\ theta[1] = c_boundmin /\ InsideAt(theta, 2) /\ InsideAt(theta, 3)
    /\ lp = NegInf

\* C5: for a fixed sample set, the array calc_posterior_mcmc returns has one
\* row per sample, and row i is calc_rdelta_p of sample i, for every worker
\* count and every order in which the tasks finish.
C5_RowAlignment ==
    b_pc = "returned" =>
        /\ samples_aux.kind = "array"
        /\ Len(samples_aux.val) = Len(samples)
        /\ \A i \in 1..Len(samples) :
              samples_aux.val[i] = calc_rdelta_p(samples[i], nemodel, clustermeta).val

C5_Witness ==
    /\ b_pc = "returned" /\ Ncores = 2 /\ Len(samples) = 3
    /\ samples[1] # samples[2]
    /\ collected[1].idx = 2

\* C6: for a sample with positive enclosed masses the seed c*rs has an
\* overdensity ratio of at least the target, and the outward search that starts
\* there ends: it reaches a radius whose ratio is at or below the target and
\* returns.
C6_SearchTerminates ==
    /\ [](r_pc = "loop" /\ iters = 0 =>
            search.ratio[1] >= overdensity * search.ratio[2])
    /\ (r_pc = "loop" ~> (r_pc = "returned" /\ ~ratio_above(search)))

C6_Witness ==
    /\ r_pc = "returned" /\ iters >= 2
    /\ search.mass_gas > 0 /\ search.mass_dev > 0
    /\ ~ratio_above(search)

\* C7: the search loop is guarded by a maximum iteration count: its body never
\* runs more often than that, and a search whose ratio is still above the
\* target then has raised DivergentSearchError.
C7_SearchGuarded ==
    /\ iters <= SearchIterLimit
    /\ (iters = SearchIterLimit /\ ratio_above(search)) =>
          (r_pc = "raised" /\ r_out = Raised("DivergentSearchError"))

\* the samples whose derived-quantity computation fails
FailingSamples ==
    {i \in 1..Len(samples) : calc_rdelta_p(samples[i], nemodel, clustermeta).kind # "row"}

\* C8: when the computation fails for some samples, calc_posterior_mcmc still
\* completes the batch: it returns, every other sample has been computed, and
\* the indices that failed are reported.
C8_FailuresIsolated ==
    (b_pc \in {"returned", "raised"} /\ FailingSamples # {}) =>
        /\ b_pc = "returned"
        /\ TasksIn("done") = (1..Len(samples)) \ FailingSamples
        /\ samples_aux.kind = "report"
        /\ samples_aux.failed = FailingSamples

\* C9: a burn-in count equal to or above the step count is a configuration
\* error: the pipeline leaves the MCMC stage only by reporting
\* ConfigurationError, never by going on to the posterior stage with the
\* empty sample set
C9_BurninRejected ==
    (Nburnin >= Nsteps /\ stage # "fit_mcmc" /\ stage # "idle") => stage = "ConfigurationError"

\* the rows of samples taken from step s of walker w
RowsFrom(w, s) == {i \in 1..Len(samples) : samples_from[i] = <<w, s>>}

C11_LikelihoodFailureRejected ==
    (/\ p_fn = "lnprob"
     /\ Len(theta) = (IF clustermeta.incl_mstar = 1 THEN 3 ELSE 2)
     /\ lp = Num(0)
     /\ lnlike(theta, tspec_data.radius, tspec_data.tspec, tspec_data.tspec_err,
               tspec_data, nemodel, clustermeta).kind # "num")
    => lnprob_out = NegInf

\* the column a key is computed from: of samples for the parameters, of
\* samples_aux (columns 0..4: rdelta, mdelta, mdm, mstars, mgas) for the
\* derived quantities
KeyColumn(k) ==
    CASE k = "c" -> column(samples, 1)
      [] k = "rs" -> column(samples, 2)
      [] k = "normsersic" -> column(samples, 3)
      [] k = "rdelta" -> column(samples_aux.val, 1)
      [] k = "mdelta" -> column(samples_aux.val, 2)
      [] k = "mdm" -> column(samples_aux.val, 3)
      [] k = "mstars" -> column(samples_aux.val, 4)
      [] k = "mgas" -> column(samples_aux.val, 5)

\* C12: every entry of the dictionary samples_results returns is the triple
\* (p50, p84 - p50, p50 - p16) of the percentiles of the column of its own
\* name, and both errors of every triple are non-negative.
C12_PercentileTriples ==
    (stage = "samples_results" /\ mcmc_results.kind = "dict") =>
        \A k \in DOMAIN mcmc_results.val :
            /\ mcmc_results.val[k][1] = percentile(KeyColumn(k), 50)
            /\ mcmc_results.val[k][2] = percentile(KeyColumn(k), 84) - percentile(KeyColumn(k), 50)
            /\ mcmc_results.val[k][3] = percentile(KeyColumn(k), 50) - percentile(KeyColumn(k), 16)
            /\ mcmc_results.val[k][2] >= 0
            /\ mcmc_results.val[k][3] >= 0

\* three samples with the stellar component whose upper and lower errors of
\* rs differ
C12_Witness ==
    /\ stage = "samples_results" /\ mcmc_results.kind = "dict"
    /\ Len(samples) = 3 /\ clustermeta.count_mstar = 1
    /\ mcmc_results.val["rs"][2] # mcmc_results.val["rs"][3]
    /\ mcmc_results.val["mstars"][2] > 0

\* C13: the dictionary always has the keys c, rs, rdelta, mdelta, mdm and
\* mgas, has normsersic and mstars exactly when the stellar mass is enabled,
\* and has no other key.
C13_SummaryKeys ==
    (stage = "samples_results" /\ mcmc_results.kind = "dict") =>
        DOMAIN mcmc_results.val =
            {"c", "rs", "rdelta", "mdelta", "mdm", "mgas"}
            \cup (IF clustermeta.count_mstar = 1 THEN {"normsersic", "mstars"} ELSE {})

C13_Witness ==
    /\ stage = "samples_results" /\ mcmc_results.kind = "dict"
    /\ clustermeta.count_mstar = 1
    /\ "mstars" \in DOMAIN mcmc_results.val

\* C14: with the stellar mass disabled every row calc_rdelta_p returns has
\* mstars = 0, whether the loop ran or not, and only c and rs of the sample
\* are read: a third component changes nothing.
C14_NoStarsZeroMass ==
    (r_pc = "returned" /\ clustermeta.count_mstar = 0) =>
        /\ r_out.kind = "row"
        /\ r_out.val[4] = 0
        /\ r_out.val = calc_rdelta_p(<<row[1], row[2]>>, nemodel, clustermeta).val

\* a sample of three components, the stellar mass disabled, the loop run
C14_Witness ==
    /\ r_pc = "returned" /\ clustermeta.count_mstar = 0
    /\ Len(row) = 3 /\ row[3] > 0 /\ iters >= 1
    /\ r_out.val[4] = 0

\* the seed radius c*rs of the sample, in ticks
SeedOf(rw) == rw[1] * rw[2]

\* C15: the rdelta returned for a sample is at least its seed radius c*rs.
C15_RdeltaAtLeastSeed ==
    r_pc = "returned" => r_out.val[1] >= SeedOf(row)

\* C19: the search evaluates the radii seed, seed+1, seed+2, ... (one unit
\* per iteration) and returns the last radius it evaluated, the first of
\* them whose ratio is at or below the target.
C19_UnitStepsFromSeed ==
    /\ (r_pc = "loop" /\ iters <= SearchIterLimit) =>
          search.at = SeedOf(row) + iters * RadScale
    /\ r_pc = "returned" =>
          /\ r_out.val[1] = search.at
          /\ ~ratio_above(search)

\* C20: with the gas mass disabled in the cluster dictionary the gas term is
\* no part of the enclosed mass of the search: the total is NFW plus the
\* Sersic term alone, as in intmodel.
C20_GasOnlyWhenEnabled ==
    (r_pc \in {"loop", "returned"} /\ clustermeta.incl_mgas = 0) =>
        /\ search.mass_gas = 0
        /\ search.mass_tot = search.mass_nfw + search.mass_dev

\* C16: a theta of 2 components with the stellar mass enabled, or of 3 with it
\* disabled, makes lnprob report ConfigurationError; it is never evaluated as
\* if it were valid.
C16_DimensionMismatchRejected ==
    (/\ p_fn = "lnprob"
     /\ Len(theta) \in {2, 3}
     /\ Len(theta) # (IF clustermeta.incl_mstar = 1 THEN 3 ELSE 2))
    => lnprob_out = Raised("ConfigurationError")

\* C17: for a theta of neither 2 nor 3 components the log-prior, and the
\* log-posterior built on it, report ConfigurationError.
C17_OtherLengthRejected ==
    (Len(theta) \notin {2, 3}) =>
        /\ p_fn = "lnprior" => lp = Raised("ConfigurationError")
        /\ p_fn = "lnprob" => lnprob_out = Raised("ConfigurationError")

\* theta is strictly inside the bounds b
InsideBounds(th, b) ==
    /\ b.c_boundmin < th[1] /\ th[1] < b.c_boundmax
    /\ b.rs_boundmin < th[2] /\ th[2] < b.rs_boundmax
    /\ Len(th) = 3 => (b.normsersic_boundmin < th[3] /\ th[3] < b.normsersic_boundmax)

\* C18: the prior of lnprob applies the bounds the analysis was configured
\* with: a theta of the right dimension is accepted (not given -inf) exactly
\* when it is inside those bounds.
C18_ConfiguredBoundsApplied ==
    (/\ p_fn = "lnprob"
     /\ Len(theta) = (IF clustermeta.incl_mstar = 1 THEN 3 ELSE 2))
    => (lnprob_out # NegInf <=> InsideBounds(theta, bounds))

\* C21: the gas mass of the search at a trial radius R is the integral from 0
\* to R of the shell mass mgas_intmodel(x, nemodel) over x, the enclosed gas
\* mass gas_mass_model(R), not R times the shell mass at R.
C21_GasMassIsIntegral ==
    (r_pc \in {"loop", "returned"}) =>
        search.mass_gas = gas_mass_model(search.at, nemodel) * Msun

\* the masses [Msun] the code computes at radius r for the sample of the call
MassesAt(r) ==
    LET m == rdelta_masses(r, row[1], row[2], rdelta_normsersic(row, clustermeta),
                           nemodel, clustermeta, 0)
    IN  <<m.mass_tot \div Msun, m.mass_nfw \div Msun, m.mass_dev \div Msun,
          m.mass_gas \div Msun>>

\* C22: on every return path the masses of the returned row (mdelta, mdm,
\* mstars, mgas) are the masses at the radius returned as rdelta, also when
\* the loop never ran.
C22_MassesAtReturnedRadius ==
    r_pc = "returned" =>
        <<r_out.val[2], r_out.val[3], r_out.val[4], r_out.val[5]>> = MassesAt(r_out.val[1])

\* C24: in every row returned the total mass is the sum of its components,
\* mdelta = mdm + mstars + mgas, with or without search iterations.
C24_TotalIsSumOfParts ==
    r_pc = "returned" =>
        r_out.val[2] = r_out.val[3] + r_out.val[4] + r_out.val[5]

\* a row returned after two iterations with dark, stellar and gas mass
C24_Witness ==
    /\ r_pc = "returned" /\ iters >= 2
    /\ r_out.val[3] > 0 /\ r_out.val[4] > 0 /\ r_out.val[5] > 0
    /\ r_out.val[2] = r_out.val[3] + r_out.val[4] + r_out.val[5]

\* theta satisfies the closed bounds b, as a result of fit_ml does
InClosedBounds(th, b) ==
    /\ b.c_boundmin <= th[1] /\ th[1] <= b.c_boundmax
    /\ b.rs_boundmin <= th[2] /\ th[2] <= b.rs_boundmax
    /\ Len(th) = 3 => (b.normsersic_boundmin <= th[3] /\ th[3] <= b.normsersic_boundmax)

\* C23: when the result of fit_ml satisfies its closed bounds, every initial
\* walker position of fit_mcmc has a finite log-prior, also when the result
\* lies exactly on a bound.
C23_WalkersStartFinite ==
    (/\ m_pc = "sampling" /\ Len(chain[1]) = 0
     /\ InClosedBounds(ml_results, bounds))
    => \A w \in 1..Nwalkers : isfinite(lnprior_default(pos[w]))

====
